---- MODULE Spec2Model ----
(***************************************************************************)
(* Drone delivery planner: DeliveryPlanner (delivery_planner.py) over the  *)
(* City graph (models/city.py), ShortestPathFinder with its class-level    *)
(* path cache (algorithms/shortest_path.py) and PackageSelector            *)
(* (algorithms/package_selector.py).                                       *)
(***************************************************************************)
EXTENDS Integers, Sequences, FiniteSets, TLC

VARIABLES
    cities,             \* DeliveryPlanner.cities of the planner in use: name -> City
    other_cities,       \* DeliveryPlanner.cities of the caller's other planner
    path_cache,         \* ShortestPathFinder._path_cache (class attribute)
    raised,             \* exception raised by the last call, "none" if it returned
    query,              \* the last direct dijkstra call and what it returned
    pc,                 \* "idle", or "planning" while plan_delivery runs
    plan_packages,      \* plan_delivery argument packages
    plan_drones,        \* plan_delivery argument drones
    remaining_packages, \* plan_delivery local
    drone_idx,          \* position of the for loop over drones
    delivery_plans,     \* plan_delivery local, the returned list once pc = "idle"
    last_trip,          \* what the last iteration of the while loop did
    history,            \* ghost: earlier plan call and the edits since it returned
    calls               \* ghost: number of calls made so far

vars == <<cities, other_cities, path_cache, raised, query, pc, plan_packages, plan_drones,
          remaining_packages, drone_idx, delivery_plans, last_trip, history, calls>>

----------------------------------------------------------------------------
(* Names and values *)

Warehouse == "Warehouse"
CityA == "CityA"
CityB == "CityB"
CityC == "CityC"
Names == {Warehouse, CityA, CityB, CityC}

\* Python's str ordering of the names, used when heapq compares (distance, name)
NameRank == [n \in Names |->
    IF n = CityA THEN 1 ELSE IF n = CityB THEN 2 ELSE IF n = CityC THEN 3 ELSE 4]

\* previous[city] = None
NoCity == "None"

\* float('inf'): larger than every finite route distance of the model
Inf == 1000000

----------------------------------------------------------------------------
(* models/city.py *)

Route(destination, distance) ==
    [destination |-> destination, distance |-> distance, is_active |-> TRUE]

City(has_charging_station) ==
    [connections |-> <<>>, has_charging_station |-> has_charging_station]

HasConnection(connections, destination) ==
    \E i \in 1..Len(connections) : connections[i].destination = destination

invalid_distance_never(distance) == FALSE

\* if distance <= 0: raise ValueError
invalid_distance(distance) == distance <= 0

\* a city keeps one connection only
add_connection_single(connections, destination, distance) ==
    IF connections = <<>> THEN <<Route(destination, distance)>> ELSE connections

\* connections[destination] = Route(destination, distance): a dict keeps the
\* position of a key it already holds and appends a new one
add_connection(connections, destination, distance) ==
    IF HasConnection(connections, destination)
    THEN [i \in 1..Len(connections) |->
            IF connections[i].destination = destination
            THEN Route(destination, distance) ELSE connections[i]]
    ELSE Append(connections, Route(destination, distance))

\* every connection of the city gets the flag
set_active_all(connections, destination, flag) ==
    [i \in 1..Len(connections) |-> [connections[i] EXCEPT !.is_active = flag]]

\* if destination in self.connections: self.connections[destination].is_active = flag
set_active(connections, destination, flag) ==
    [i \in 1..Len(connections) |->
        IF connections[i].destination = destination
        THEN [connections[i] EXCEPT !.is_active = flag] ELSE connections[i]]

city_deactivate_route(connections, destination) ==
    set_active(connections, destination, FALSE)

city_activate_route(connections, destination) ==
    set_active(connections, destination, TRUE)

----------------------------------------------------------------------------
(* algorithms/shortest_path.py *)

EmptyCache == [k \in {} |-> [path |-> <<>>, distance |-> 0]]

clear_cache_keeps(cache) == cache

clear_cache(cache) == EmptyCache

\* the largest tuple first
HeapGreater(x, y) ==
    \/ x[1] > y[1]
    \/ x[1] = y[1] /\ NameRank[x[2]] > NameRank[y[2]]

\* equal distances: the largest name first
HeapLessLastName(x, y) ==
    \/ x[1] < y[1]
    \/ x[1] = y[1] /\ NameRank[x[2]] > NameRank[y[2]]

\* heapq order of (distance, city) tuples
HeapLess(x, y) ==
    \/ x[1] < y[1]
    \/ x[1] = y[1] /\ NameRank[x[2]] < NameRank[y[2]]

heappop(pq) == CHOOSE x \in pq : \A y \in pq \ {x} : HeapLess(x, y)

usable_always(route) == TRUE

\* if not route.is_active: continue
usable(route) == route.is_active

\* the body of the for loop over the connections of current_city
relax_one(route, current_distance, current_city, st) ==
    LET neighbor == route.destination
        new_distance == current_distance + route.distance
    IN  IF ~usable(route) THEN st
        ELSE IF neighbor \in st.visited THEN st
        ELSE IF neighbor \notin DOMAIN st.distances
        THEN [st EXCEPT !.raised = TRUE]
        ELSE IF new_distance < st.distances[neighbor]
        THEN [st EXCEPT !.distances[neighbor] = new_distance,
                        !.previous[neighbor] = current_city,
                        !.pq = @ \cup {<<new_distance, neighbor>>}]
        ELSE st

\* for neighbor, route in cities[current_city].connections.items()
RECURSIVE relax(_, _, _, _, _)
relax(connections, i, current_distance, current_city, st) ==
    IF i > Len(connections) \/ st.raised THEN st
    ELSE relax(connections, i + 1, current_distance, current_city,
               relax_one(connections[i], current_distance, current_city, st))

\* one pass through the body of `while pq`; done: the loop was left by break
\* or by an exception
dijkstra_step(cs, end, st) ==
    LET top == heappop(st.pq)
        current_distance == top[1]
        current_city == top[2]
        popped == [st EXCEPT !.pq = @ \ {top}]
    IN  IF current_city = end THEN [popped EXCEPT !.done = TRUE]
        ELSE IF current_city \in st.visited THEN popped
        ELSE IF current_city \notin DOMAIN cs
        THEN [popped EXCEPT !.raised = TRUE, !.done = TRUE]
        ELSE relax(cs[current_city].connections, 1, current_distance, current_city,
                   [popped EXCEPT !.visited = @ \cup {current_city}])

\* while pq
RECURSIVE dijkstra_loop(_, _, _)
dijkstra_loop(cs, end, st) ==
    IF st.pq = {} \/ st.raised \/ st.done THEN st
    ELSE dijkstra_loop(cs, end, dijkstra_step(cs, end, st))

RECURSIVE reconstruct(_, _, _)
reconstruct(previous, current, path) ==
    IF current = NoCity THEN path
    ELSE reconstruct(previous, previous[current], <<current>> \o path)

\* if start not in cities or end not in cities
absent_city(cs, start, end) == start \notin DOMAIN cs \/ end \notin DOMAIN cs

\* distances, previous, pq and visited as dijkstra sets them up
initial_search(cs, start) ==
    [distances |-> [c \in DOMAIN cs \cup {start} |-> IF c = start THEN 0 ELSE Inf],
     previous |-> [c \in DOMAIN cs |-> NoCity],
     pq |-> {<<0, start>>},
     visited |-> {},
     raised |-> FALSE,
     done |-> FALSE]

\* what dijkstra makes of the state the loop leaves; store: the result is
\* written to the cache
search_result(st, end) ==
    IF st.raised \/ end \notin DOMAIN st.distances
    THEN [path |-> <<>>, distance |-> Inf, raised |-> TRUE, store |-> FALSE]
    ELSE IF st.distances[end] = Inf
    THEN [path |-> <<>>, distance |-> Inf, raised |-> FALSE, store |-> FALSE]
    ELSE [path |-> reconstruct(st.previous, end, <<>>),
          distance |-> st.distances[end],
          raised |-> FALSE, store |-> TRUE]

\* the body of dijkstra below the cache lookup; raised: a KeyError left it
dijkstra_search(cs, start, end) ==
    IF absent_city(cs, start, end)
    THEN [path |-> <<>>, distance |-> Inf, raised |-> FALSE, store |-> FALSE]
    ELSE search_result(dijkstra_loop(cs, end, initial_search(cs, start)), end)

\* if cache_key in cls._path_cache: return cls._path_cache[cache_key]
cache_hit(cache, cache_key) ==
    [path |-> cache[cache_key].path, distance |-> cache[cache_key].distance,
     raised |-> FALSE, cache |-> cache]

\* cls._path_cache[cache_key] = result, for the results that reach that line
cache_store(cache, cache_key, r) ==
    [path |-> r.path, distance |-> r.distance, raised |-> r.raised,
     cache |-> IF r.store
               THEN [k \in DOMAIN cache \cup {cache_key} |->
                        IF k = cache_key
                        THEN [path |-> r.path, distance |-> r.distance]
                        ELSE cache[k]]
               ELSE cache]

\* ShortestPathFinder.dijkstra: the result and the cache it leaves
dijkstra(cs, cache, start, end) ==
    IF <<start, end>> \in DOMAIN cache
    THEN cache_hit(cache, <<start, end>>)
    ELSE cache_store(cache, <<start, end>>, dijkstra_search(cs, start, end))

----------------------------------------------------------------------------
(* models/package.py, models/drone.py *)

\* priority: Optional[int] = None; no package of the model has priority 0
NoPriority == 0

Package(id, weight, value, destination) ==
    [id |-> id, weight |-> weight, value |-> value, destination |-> destination,
     priority |-> NoPriority]

\* Package(id, weight, value, destination, priority=priority)
PriorityPackage(id, weight, value, destination, priority) ==
    [Package(id, weight, value, destination) EXCEPT !.priority = priority]

Drone(id, max_weight, max_distance) ==
    [id |-> id, max_weight |-> max_weight, max_distance |-> max_distance]

package_is_valid(package) ==
    package.id > 0 /\ package.weight > 0 /\ package.value >= 0
        /\ package.destination # ""

drone_is_valid(drone) ==
    drone.id > 0 /\ drone.max_weight > 0 /\ drone.max_distance > 0

----------------------------------------------------------------------------
(* algorithms/package_selector.py: select_packages *)

\* the first loop's body once both distances are known
info_entry(package, drone, acc, out, back) ==
    IF back.raised THEN [acc EXCEPT !.raised = TRUE, !.cache = back.cache]
    ELSE IF back.distance = Inf THEN [acc EXCEPT !.cache = back.cache]
    ELSE IF out.distance + back.distance > drone.max_distance
    THEN [acc EXCEPT !.cache = back.cache]
    ELSE [acc EXCEPT !.cache = back.cache,
                     !.info = Append(@, [package |-> package,
                                         total_distance |->
                                            out.distance + back.distance])]

\* the first loop's body once the distance to the destination is known
info_return(package, drone, cs, start_city, acc, out) ==
    IF out.raised THEN [acc EXCEPT !.raised = TRUE, !.cache = out.cache]
    ELSE IF out.distance = Inf THEN [acc EXCEPT !.cache = out.cache]
    ELSE info_entry(package, drone, acc, out,
                    dijkstra(cs, out.cache, package.destination, start_city))

\* the body of the first loop: a package_info entry for a package that can be
\* round-tripped
package_info(package, drone, cs, start_city, acc) ==
    IF ~package_is_valid(package) THEN acc
    ELSE info_return(package, drone, cs, start_city, acc,
                     dijkstra(cs, acc.cache, start_city, package.destination))

\* for package in packages
RECURSIVE package_infos(_, _, _, _, _, _)
package_infos(packages, i, drone, cs, start_city, acc) ==
    IF i > Len(packages) \/ acc.raised THEN acc
    ELSE package_infos(packages, i + 1, drone, cs, start_city,
                       package_info(packages[i], drone, cs, start_city, acc))

\* the package of the more urgent priority first
ScoreByPriority(a, b) == a.package.priority < b.package.priority

\* score(a) > score(b), score = (value / weight) / (total_distance + 1), compared
\* as fractions with positive denominators
ScoreGreater(a, b) ==
    a.package.value * (b.package.weight * (b.total_distance + 1))
        > b.package.value * (a.package.weight * (a.total_distance + 1))

\* an ascending sort
InsertByScoreAscending(sorted, x) ==
    LET before == {i \in 1..Len(sorted) : ScoreGreater(sorted[i], x)}
        at == IF before = {} THEN Len(sorted) + 1
              ELSE CHOOSE i \in before : \A j \in before : i <= j
    IN  SubSeq(sorted, 1, at - 1) \o <<x>> \o SubSeq(sorted, at, Len(sorted))

\* where a stable descending sort puts x among the already sorted entries
InsertByScore(sorted, x) ==
    LET before == {i \in 1..Len(sorted) : ScoreGreater(x, sorted[i])}
        at == IF before = {} THEN Len(sorted) + 1
              ELSE CHOOSE i \in before : \A j \in before : i <= j
    IN  SubSeq(sorted, 1, at - 1) \o <<x>> \o SubSeq(sorted, at, Len(sorted))

\* package_info.sort(key=score, reverse=True)
RECURSIVE sort_by_score(_, _, _)
sort_by_score(info, i, sorted) ==
    IF i > Len(info) THEN sorted
    ELSE sort_by_score(info, i + 1, InsertByScore(sorted, info[i]))

capacity_is_range(drone) == drone.max_distance

\* remaining_weight = drone.max_weight
capacity(drone) == drone.max_weight

fits_weight_any(package, remaining_weight) == TRUE

\* if package.weight <= remaining_weight
fits_weight(package, remaining_weight) == package.weight <= remaining_weight

\* the candidate's own round trip is within the range
fits_range_alone(total_distance, info, drone) ==
    info.total_distance <= drone.max_distance

\* if total_distance + info['total_distance'] <= drone.max_distance
fits_range(total_distance, info, drone) ==
    total_distance + info.total_distance <= drone.max_distance

accepts(info, remaining_weight, total_distance, drone) ==
    /\ fits_weight(info.package, remaining_weight)
    /\ fits_range(total_distance, info, drone)

\* the body of the second loop
greedy_one(info, acc, drone) ==
    IF accepts(info, acc.remaining_weight, acc.total_distance, drone)
    THEN [selected_packages |-> Append(acc.selected_packages, info.package),
          remaining_weight |-> acc.remaining_weight - info.package.weight,
          total_distance |-> acc.total_distance + info.total_distance]
    ELSE acc

\* the second loop: greedy acceptance in score order
RECURSIVE greedy(_, _, _, _)
greedy(infos, i, acc, drone) ==
    IF i > Len(infos) THEN acc.selected_packages
    ELSE greedy(infos, i + 1, greedy_one(infos[i], acc, drone), drone)

\* the sort and the second loop, on what the first loop collected
select_sorted(acc, drone) ==
    IF acc.raised
    THEN [selected |-> <<>>, cache |-> acc.cache, raised |-> TRUE]
    ELSE [selected |-> greedy(sort_by_score(acc.info, 1, <<>>), 1,
                              [selected_packages |-> <<>>,
                               remaining_weight |-> capacity(drone),
                               total_distance |-> 0], drone),
          cache |-> acc.cache, raised |-> FALSE]

select_packages(packages, drone, cs, cache, start_city) ==
    IF packages = <<>> \/ ~drone_is_valid(drone)
    THEN [selected |-> <<>>, cache |-> cache, raised |-> FALSE]
    ELSE select_sorted(package_infos(packages, 1, drone, cs, start_city,
                            [info |-> <<>>, cache |-> cache, raised |-> FALSE]),
                       drone)

----------------------------------------------------------------------------
(* algorithms/package_selector.py: optimize_delivery_order *)

\* what one dijkstra call of the scan leaves
scanned(r) == [cache |-> r.cache, raised |-> r.raised]

\* for destination in remaining_destinations: every remaining destination is
\* queried from current_city; the cache the scan leaves
RECURSIVE scan(_, _, _, _)
scan(cs, acc, current_city, destinations) ==
    IF destinations = {} \/ acc.raised THEN acc
    ELSE scan(cs,
              scanned(dijkstra(cs, acc.cache, current_city,
                               CHOOSE d \in destinations : TRUE)),
              current_city,
              destinations \ {CHOOSE d \in destinations : TRUE})

\* the destinations at the least distance, when that distance is finite
nearest_by(distance, remaining_destinations) ==
    {d \in remaining_destinations :
        /\ distance[d] < Inf
        /\ \A e \in remaining_destinations : distance[d] <= distance[e]}

\* the destinations the scan can end with as nearest_destination: the scan
\* keeps the first one it meets with distance < min_distance, and the iteration
\* order of the set remaining_destinations is not fixed by the program
nearest_destinations(cs, cache, current_city, remaining_destinations) ==
    nearest_by([d \in remaining_destinations |->
                    dijkstra(cs, cache, current_city, d).distance],
               remaining_destinations)

RECURSIVE order_destinations(_, _, _, _, _)

\* the rest of one pass through `while remaining_destinations`, after the scan
order_after_scan(cs, remaining, ordered, after, nearest) ==
    IF after.raised
    THEN {[ordered_destinations |-> ordered, cache |-> after.cache,
           raised |-> TRUE]}
    ELSE IF nearest = {}
    THEN {[ordered_destinations |-> ordered, cache |-> after.cache,
           raised |-> FALSE]}
    ELSE UNION {order_destinations(cs, after.cache, d, remaining \ {d},
                                   Append(ordered, d)) : d \in nearest}

\* while remaining_destinations: the set of orders the loop can produce
order_destinations(cs, cache, current_city, remaining, ordered) ==
    IF remaining = {}
    THEN {[ordered_destinations |-> ordered, cache |-> cache, raised |-> FALSE]}
    ELSE order_after_scan(cs, remaining, ordered,
                          scan(cs, [cache |-> cache, raised |-> FALSE],
                               current_city, remaining),
                          nearest_destinations(cs, cache, current_city, remaining))

\* ordered_packages.extend(packages_by_destination[destination])
RECURSIVE packages_in_order(_, _, _)
packages_in_order(packages, ordered_destinations, i) ==
    IF i > Len(ordered_destinations) THEN <<>>
    ELSE SelectSeq(packages, LAMBDA p : p.destination = ordered_destinations[i])
            \o packages_in_order(packages, ordered_destinations, i + 1)

\* the set of results optimize_delivery_order can return
optimize_delivery_order(packages, cs, cache, start_city) ==
    IF packages = <<>>
    THEN {[ordered |-> <<>>, cache |-> cache, raised |-> FALSE]}
    ELSE {[ordered |-> packages_in_order(packages, o.ordered_destinations, 1),
           cache |-> o.cache, raised |-> o.raised]
          : o \in order_destinations(cs, cache, start_city,
                    {packages[i].destination : i \in 1..Len(packages)}, <<>>)}

----------------------------------------------------------------------------
(* delivery_planner.py *)

\* the city is created anew whether or not the name is known
add_city_overwrites(cs, name, has_charging_station) ==
    [n \in DOMAIN cs \cup {name} |->
        IF n = name THEN City(has_charging_station) ELSE cs[n]]

\* if name not in self.cities: self.cities[name] = City(name), with the flag
add_city(cs, name, has_charging_station) ==
    IF name \in DOMAIN cs THEN cs
    ELSE [n \in DOMAIN cs \cup {name} |->
            IF n = name THEN City(has_charging_station) ELSE cs[n]]

exceeds_range_never(total_distance, distance, drone) == FALSE

\* total_distance + distance > drone.max_distance
exceeds_range(total_distance, distance, drone) ==
    total_distance + distance > drone.max_distance

\* the body of the for loop over ordered_packages, for the path r to the
\* package's destination
leg(package, drone, acc, r) ==
    IF r.raised
    THEN [acc EXCEPT !.raised = TRUE, !.cache = r.cache]
    ELSE IF r.distance = Inf \/ exceeds_range(acc.total_distance, r.distance, drone)
    THEN [acc EXCEPT !.broke = TRUE, !.cache = r.cache]
    ELSE [acc EXCEPT !.route = @ \o Tail(r.path),
                     !.total_distance = @ + r.distance,
                     !.current_city = package.destination,
                     !.cache = r.cache]

\* the body of the for loop over ordered_packages: one delivery leg
visit_one(package, drone, cs, acc) ==
    leg(package, drone, acc,
        dijkstra(cs, acc.cache, acc.current_city, package.destination))

\* for package in ordered_packages: the delivery legs of the route
RECURSIVE visit(_, _, _, _, _)
visit(ordered_packages, i, drone, cs, acc) ==
    IF i > Len(ordered_packages) \/ acc.raised \/ acc.broke THEN acc
    ELSE visit(ordered_packages, i + 1, drone, cs,
               visit_one(ordered_packages[i], drone, cs, acc))

RECURSIVE sum_value(_, _)
sum_value(packages, i) ==
    IF i > Len(packages) THEN 0 ELSE packages[i].value + sum_value(packages, i + 1)

remove_nothing(list, x) == list

\* list.remove(x): drops the first element equal to x
remove(list, x) ==
    LET at == CHOOSE i \in 1..Len(list) : list[i] = x /\ \A j \in 1..(i - 1) : list[j] # x
    IN  SubSeq(list, 1, at - 1) \o SubSeq(list, at + 1, Len(list))

RECURSIVE remove_all(_, _, _)
remove_all(list, selected_packages, i) ==
    IF i > Len(selected_packages) THEN list
    ELSE remove_all(remove(list, selected_packages[i]), selected_packages, i + 1)

\* what a pass through the body of `while remaining_packages` is recorded with
trip_record(sel, ord, legs, outcome, cache) ==
    [selected |-> sel.selected, ordered |-> ord.ordered, leg_broke |-> legs.broke,
     plan |-> <<>>, outcome |-> outcome, cache |-> cache]

\* the return leg and the plan dict, for the path back to the warehouse
return_leg(drone, sel, ord, legs, back) ==
    IF back.raised
    THEN trip_record(sel, ord, legs, "raised", back.cache)
    ELSE IF back.distance = Inf
            \/ exceeds_range(legs.total_distance, back.distance, drone)
    THEN trip_record(sel, ord, legs, "aborted", back.cache)
    ELSE [trip_record(sel, ord, legs, "emitted", back.cache) EXCEPT !.plan =
            <<[drone_id |-> drone.id,
               packages |-> sel.selected,
               route |-> legs.route \o Tail(back.path),
               total_distance |-> legs.total_distance + back.distance,
               total_value |-> sum_value(sel.selected, 1)]>>]

\* the body of `while remaining_packages` below the delivery legs
after_legs(drone, cs, warehouse, sel, ord, legs) ==
    IF legs.raised
    THEN trip_record(sel, ord, legs, "raised", legs.cache)
    ELSE return_leg(drone, sel, ord, legs,
                    dijkstra(cs, legs.cache, legs.current_city, warehouse))

\* the route as it is before the first delivery leg
route_start(warehouse, cache) ==
    [route |-> <<warehouse>>, total_distance |-> 0, current_city |-> warehouse,
     cache |-> cache, broke |-> FALSE, raised |-> FALSE]

\* one pass through the body of `while remaining_packages` for one possible
\* result of optimize_delivery_order
trip(drone, cs, warehouse, sel, ord) ==
    IF ord.raised
    THEN trip_record(sel, ord, route_start(warehouse, ord.cache), "raised", ord.cache)
    ELSE after_legs(drone, cs, warehouse, sel, ord,
                    visit(ord.ordered, 1, drone, cs,
                          route_start(warehouse, ord.cache)))

\* sum(len(plan['packages']) for plan in delivery_plans)
RECURSIVE sum_packages(_, _)
sum_packages(plans, i) ==
    IF i > Len(plans) THEN 0 ELSE Len(plans[i].packages) + sum_packages(plans, i + 1)

\* sum(plan['total_value'] for plan in delivery_plans)
RECURSIVE sum_total_value(_, _)
sum_total_value(plans, i) ==
    IF i > Len(plans) THEN 0 ELSE plans[i].total_value + sum_total_value(plans, i + 1)

\* sum(plan['total_distance'] for plan in delivery_plans)
RECURSIVE sum_total_distance(_, _)
sum_total_distance(plans, i) ==
    IF i > Len(plans) THEN 0
    ELSE plans[i].total_distance + sum_total_distance(plans, i + 1)

RECURSIVE GCD(_, _)
GCD(a, b) == IF b = 0 THEN a ELSE GCD(b, a % b)

\* the number a / b of Python, kept as a fraction in lowest terms; b is not 0
true_div(a, b) == [num |-> a \div GCD(a, b), den |-> b \div GCD(a, b)]

\* the literal 0 of the all-zero result
Zero == [num |-> 0, den |-> 1]

\* the dict returned for trips, ZeroDivisionError when num_trips is 0
statistics_of(total_packages, total_value, total_distance, num_trips) ==
    IF num_trips = 0
    THEN [raised |-> TRUE,
          total_packages |-> 0, total_value |-> 0, total_distance |-> 0,
          average_packages_per_trip |-> Zero,
          average_value_per_trip |-> Zero,
          average_distance_per_trip |-> Zero]
    ELSE [raised |-> FALSE,
          total_packages |-> total_packages,
          total_value |-> total_value,
          total_distance |-> total_distance,
          average_packages_per_trip |-> true_div(total_packages, num_trips),
          average_value_per_trip |-> true_div(total_value, num_trips),
          average_distance_per_trip |-> true_div(total_distance, num_trips)]

\* the dict returned when there is no trip
no_statistics ==
    [raised |-> FALSE,
     total_packages |-> 0, total_value |-> 0, total_distance |-> 0,
     average_packages_per_trip |-> Zero,
     average_value_per_trip |-> Zero,
     average_distance_per_trip |-> Zero]

no_plans_never(delivery_plans_arg) == FALSE

\* if not delivery_plans
no_plans(delivery_plans_arg) == delivery_plans_arg = <<>>

get_delivery_statistics(delivery_plans_arg) ==
    IF no_plans(delivery_plans_arg) THEN no_statistics
    ELSE statistics_of(sum_packages(delivery_plans_arg, 1),
                       sum_total_value(delivery_plans_arg, 1),
                       sum_total_distance(delivery_plans_arg, 1),
                       Len(delivery_plans_arg))

----------------------------------------------------------------------------
(* The calls the model makes *)

\* calls per behaviour
MaxCalls == 5

\* add_route arguments; the last one fails validation in City.add_connection
RouteArgs == {<<Warehouse, CityA, 10>>, <<CityA, CityB, 15>>, <<CityB, CityC, 20>>,
              <<CityA, CityB, 80>>, <<Warehouse, CityC, 10>>, <<Warehouse, CityC, 0>>}

\* activate_route and deactivate_route arguments
TogglePairs == {<<Warehouse, CityA>>, <<CityA, CityB>>}

\* add_city arguments
CityArgs == {<<CityC, TRUE>>}

\* direct dijkstra calls
QueryPairs == {<<Warehouse, CityB>>, <<Warehouse, CityC>>}

P1 == Package(1, 5, 100, CityA)
P2 == Package(2, 3, 150, CityB)
P3 == Package(3, 4, 200, CityC)

\* plan_delivery arguments: packages and drones
PlanArgs == {<<<<P1, P2, P3>>, <<Drone(1, 20, 100)>>>>,
             <<<<P1, P2, P3>>, <<Drone(1, 4, 100), Drone(2, 20, 100)>>>>,
             <<<<P1, P2>>, <<Drone(1, 20, 70)>>>>,
             <<<<P1, P2>>, <<Drone(1, 2, 100)>>>>,
             <<<<P2>>, <<Drone(1, 20, 100)>>>>}

\* the network of test_package_priority
PriorityRouteArgs == {<<Warehouse, CityA, 10>>, <<CityA, CityB, 15>>}

\* the packages of test_package_priority, and the same packages with the
\* priorities 3, 2, 1
PriorityPackages ==
    <<PriorityPackage(1, 5, 100, CityA, 1), PriorityPackage(2, 3, 150, CityB, 2),
      PriorityPackage(3, 4, 200, CityA, 3)>>

ReprioritizedPackages ==
    <<PriorityPackage(1, 5, 100, CityA, 3), PriorityPackage(2, 3, 150, CityB, 2),
      PriorityPackage(3, 4, 200, CityA, 1)>>

\* plan_delivery arguments with priorities: the drone of test_package_priority
\* and one that carries less
PriorityPlanArgs ==
    {PriorityPackages, ReprioritizedPackages}
        \X {<<Drone(1, 10, 50)>>, <<Drone(1, 8, 50)>>}

\* add_route arguments that give CityB two shortest paths from the warehouse,
\* over CityA and over CityC, of 10 + 15 or of 5 + 20
TieRouteArgs == {<<Warehouse, CityA, 10>>, <<Warehouse, CityC, 10>>,
                 <<Warehouse, CityC, 5>>, <<CityA, CityB, 15>>,
                 <<CityC, CityB, 15>>, <<CityC, CityB, 20>>}

\* direct dijkstra calls between the ends of the two paths
TieQueryPairs == {<<Warehouse, CityB>>, <<CityB, Warehouse>>}

\* add_route arguments that link two cities to the warehouse and then move
\* the nearer one away
RerouteArgs == {<<Warehouse, CityA, 10>>, <<Warehouse, CityB, 15>>,
                <<Warehouse, CityA, 80>>}

\* add_route arguments for a triangle of the warehouse, CityA and CityB
ProxyRouteArgs == RerouteArgs \cup {<<CityA, CityB, 15>>}

\* plan_delivery arguments with a drone whose range is less than the round
\* trips to CityA and CityB together
ProxyPlanArgs == {<<<<P1, P2>>, <<Drone(1, 20, 40)>>>>,
                  <<<<P1, P2>>, <<Drone(1, 20, 100)>>>>,
                  <<<<P1, P2, P3>>, <<Drone(1, 4, 100), Drone(2, 20, 100)>>>>}

\* optimize_delivery_order arguments
OrderArgs == {<<P1, P2>>, <<P2, P1, Package(4, 2, 50, CityB)>>, <<P3, P1>>}

\* cache_empty: the cache held nothing when the call was made
NoQuery == [start |-> NoCity, end |-> NoCity, path |-> <<>>, distance |-> 0,
            cache_empty |-> FALSE]

NoTrip == [outcome |-> "none", selected |-> <<>>, ordered |-> <<>>,
           leg_broke |-> FALSE, plan |-> <<>>]

\* a planner constructed without its warehouse
NewCitiesEmpty == [n \in {} |-> City(FALSE)]

\* DeliveryPlanner.__init__
NewCities == [n \in {Warehouse} |-> City(FALSE)]

NoOrder == [ordered |-> <<>>, raised |-> FALSE]

NoUndone == [set |-> FALSE, cities |-> NewCities, cache |-> EmptyCache]

NoPlanBefore == [returned |-> FALSE, packages |-> <<>>, drones |-> <<>>,
                 plans |-> <<>>, edits |-> "none"]

\* history.returned: plan_delivery returned delivery_plans and no plan call
\*   was made since
\* history.edits: the network edits since the last plan_delivery call began:
\*   "none", "deactivate" (one deactivate_route call that turned an active
\*   link off, and nothing else) or "other"
\* history.dropped: the cache keys held when the last edit, a deactivate_route
\*   call that turned an active link off, was made
\* history.fresh: the cache was empty when the last plan_delivery call began
\* history.before: the plan_delivery call before the current one
\* history.answer: what the last dijkstra call on the network of the planner in
\*   use returned, NoQuery when the network was changed or plan_delivery was
\*   called since
\* history.earlier: what the dijkstra call before that one returned for the
\*   same pair, the network not changed and plan_delivery not called since
\* history.other_answer: history.answer of the caller's other planner
\* history.call: the last call made, its name and its arguments
\* history.stats: what the last get_delivery_statistics call made of
\*   delivery_plans, while history.call is that call
\* history.order: what the last direct optimize_delivery_order call returned
\*   and whether it raised, while history.call is that call
\* history.undone: the network and the cache as they were before the last
\*   call, when that call was a deactivate_route that turned an active link off
NoHistory == [returned |-> FALSE, edits |-> "none", dropped |-> {},
              fresh |-> FALSE, before |-> NoPlanBefore,
              answer |-> NoQuery, earlier |-> NoQuery, other_answer |-> NoQuery,
              call |-> <<>>, stats |-> no_statistics, order |-> NoOrder,
              undone |-> NoUndone]

Init ==
    /\ cities = NewCities
    /\ other_cities = NewCities
    /\ path_cache = EmptyCache
    /\ raised = "none"
    /\ query = NoQuery
    /\ pc = "idle"
    /\ plan_packages = <<>>
    /\ plan_drones = <<>>
    /\ remaining_packages = <<>>
    /\ drone_idx = 1
    /\ delivery_plans = <<>>
    /\ last_trip = NoTrip
    /\ history = NoHistory
    /\ calls = 0

PlanVars == <<pc, plan_packages, plan_drones, remaining_packages, drone_idx,
              delivery_plans, last_trip>>

\* a caller makes one more call
Call == calls < MaxCalls /\ calls' = calls + 1

\* the caller builds one network only: its other planner stays as constructed
OneNetworkBuilt == other_cities = NewCities

Edited(kind, dropped, call, undone) ==
    history' = [history EXCEPT !.edits = IF @ = "none" THEN kind ELSE "other",
                               !.dropped = dropped,
                               !.call = call,
                               !.undone = undone,
                               !.answer = IF cities' = cities THEN @ ELSE NoQuery,
                               !.earlier = IF cities' = cities THEN @ ELSE NoQuery]

\* the caller has two planners and goes on with the other one; the cache is a
\* class attribute of ShortestPathFinder and stays as it is
SwitchPlanner ==
    /\ pc = "idle"
    /\ cities # other_cities
    /\ cities' = other_cities
    /\ other_cities' = cities
    /\ raised' = "none"
    /\ query' = NoQuery
    /\ history' = [history EXCEPT !.edits = "other",
                                  !.dropped = {},
                                  !.answer = history.other_answer,
                                  !.earlier = NoQuery,
                                  !.other_answer = history.answer,
                                  !.call = <<"switch">>,
                                  !.undone = NoUndone]
    /\ UNCHANGED <<path_cache, PlanVars, calls>>

AddCity(name, has_charging_station) ==
    /\ pc = "idle"
    /\ OneNetworkBuilt
    /\ Call
    /\ cities' = add_city(cities, name, has_charging_station)
    /\ raised' = "none"
    /\ query' = NoQuery
    /\ Edited("other", {}, <<"add_city", name, has_charging_station>>, NoUndone)
    /\ UNCHANGED <<other_cities, path_cache, PlanVars>>

\* add_route: both add_city calls come before add_connection can raise
AddRoute(city1, city2, distance) ==
    /\ pc = "idle"
    /\ OneNetworkBuilt
    /\ Call
    /\ LET cs == add_city(add_city(cities, city1, FALSE), city2, FALSE)
           cs1 == [cs EXCEPT ![city1].connections =
                                add_connection(@, city2, distance)]
           cs2 == [cs1 EXCEPT ![city2].connections =
                                add_connection(@, city1, distance)]
       IN  IF invalid_distance(distance)
           THEN cities' = cs /\ raised' = "ValueError"
           ELSE cities' = cs2 /\ raised' = "none"
    /\ query' = NoQuery
    /\ Edited("other", {}, <<"add_route", city1, city2, distance>>, NoUndone)
    /\ UNCHANGED <<other_cities, path_cache, PlanVars>>

LinkActive(cs, a, b) ==
    /\ a \in DOMAIN cs
    /\ \E i \in 1..Len(cs[a].connections) :
          cs[a].connections[i].destination = b /\ cs[a].connections[i].is_active

DeactivateRoute(city1, city2) ==
    /\ pc = "idle"
    /\ Call
    /\ IF city1 \in DOMAIN cities /\ city2 \in DOMAIN cities
       THEN /\ cities' = [[cities EXCEPT ![city1].connections =
                                    city_deactivate_route(@, city2)]
                            EXCEPT ![city2].connections =
                                    city_deactivate_route(@, city1)]
            /\ path_cache' = clear_cache(path_cache)
       ELSE UNCHANGED <<cities, path_cache>>
    /\ raised' = "none"
    /\ query' = NoQuery
    /\ IF LinkActive(cities, city1, city2) /\ LinkActive(cities, city2, city1)
       THEN Edited("deactivate", DOMAIN path_cache,
                   <<"deactivate_route", city1, city2>>,
                   [set |-> TRUE, cities |-> cities, cache |-> path_cache])
       ELSE Edited("other", {}, <<"deactivate_route", city1, city2>>, NoUndone)
    /\ UNCHANGED <<other_cities, PlanVars>>

ActivateRoute(city1, city2) ==
    /\ pc = "idle"
    /\ Call
    /\ IF city1 \in DOMAIN cities /\ city2 \in DOMAIN cities
       THEN /\ cities' = [[cities EXCEPT ![city1].connections =
                                    city_activate_route(@, city2)]
                            EXCEPT ![city2].connections =
                                    city_activate_route(@, city1)]
            /\ path_cache' = clear_cache(path_cache)
       ELSE UNCHANGED <<cities, path_cache>>
    /\ raised' = "none"
    /\ query' = NoQuery
    /\ Edited("other", {}, <<"activate_route", city1, city2>>, NoUndone)
    /\ UNCHANGED <<other_cities, PlanVars>>

\* the answer an earlier call gave for the pair of answer, the network not
\* changed since
EarlierAnswer(answer) ==
    IF history.answer.start = answer.start /\ history.answer.end = answer.end
    THEN history.answer
    ELSE IF history.earlier.start = answer.start /\ history.earlier.end = answer.end
    THEN history.earlier
    ELSE NoQuery

\* what a dijkstra call that returned r is recorded as
Answered(start, end, r) ==
    [start |-> start, end |-> end, path |-> r.path, distance |-> r.distance,
     cache_empty |-> path_cache = EmptyCache]

\* a caller's ShortestPathFinder.dijkstra(planner.cities, start, end)
Query(start, end) ==
    /\ pc = "idle"
    /\ Call
    /\ \E r \in {dijkstra(cities, path_cache, start, end)} :
           /\ path_cache' = r.cache
           /\ raised' = IF r.raised THEN "KeyError" ELSE "none"
           /\ query' = IF r.raised THEN NoQuery ELSE Answered(start, end, r)
           /\ history' = IF r.raised
                         THEN [history EXCEPT !.call = <<"dijkstra", start, end>>,
                                              !.undone = NoUndone]
                         ELSE [history EXCEPT
                                !.call = <<"dijkstra", start, end>>,
                                !.undone = NoUndone,
                                !.answer = Answered(start, end, r),
                                !.earlier = EarlierAnswer(Answered(start, end, r))]
    /\ UNCHANGED <<cities, other_cities, PlanVars>>

\* a caller's get_delivery_statistics(trips), for the trips of its last
\* plan_delivery call, or for no trips before it
Statistics ==
    /\ pc = "idle"
    /\ Call
    /\ \E stats \in {get_delivery_statistics(delivery_plans)} :
          /\ raised' = IF stats.raised THEN "ZeroDivisionError" ELSE "none"
          /\ history' = [history EXCEPT !.call = <<"get_delivery_statistics">>,
                                        !.stats = stats,
                                        !.undone = NoUndone]
    /\ query' = NoQuery
    /\ UNCHANGED <<cities, other_cities, path_cache, PlanVars>>

\* a caller's PackageSelector.optimize_delivery_order(packages, planner.cities,
\* planner.warehouse)
Optimize(packages) ==
    /\ pc = "idle"
    /\ Call
    /\ \E o \in optimize_delivery_order(packages, cities, path_cache, Warehouse) :
          /\ path_cache' = o.cache
          /\ raised' = IF o.raised THEN "KeyError" ELSE "none"
          /\ history' = [history EXCEPT
                            !.call = <<"optimize_delivery_order", packages>>,
                            !.order = [ordered |-> o.ordered, raised |-> o.raised],
                            !.undone = NoUndone]
    /\ query' = NoQuery
    /\ UNCHANGED <<cities, other_cities, PlanVars>>

\* plan_delivery up to the for loop
PlanStart(packages, drones) ==
    /\ pc = "idle"
    /\ Call
    /\ pc' = "planning"
    /\ plan_packages' = packages
    /\ plan_drones' = drones
    /\ remaining_packages' = packages
    /\ drone_idx' = 1
    /\ delivery_plans' = <<>>
    /\ last_trip' = NoTrip
    /\ raised' = "none"
    /\ query' = NoQuery
    /\ history' = [returned |-> FALSE, edits |-> "none",
                   dropped |-> history.dropped,
                   fresh |-> path_cache = EmptyCache,
                   before |-> [returned |-> history.returned,
                               packages |-> plan_packages,
                               drones |-> plan_drones,
                               plans |-> delivery_plans,
                               edits |-> history.edits],
                   answer |-> NoQuery,
                   earlier |-> NoQuery,
                   other_answer |-> NoQuery,
                   call |-> <<"plan_delivery">>,
                   stats |-> no_statistics,
                   order |-> NoOrder,
                   undone |-> NoUndone]
    /\ UNCHANGED <<cities, other_cities, path_cache>>

\* `while remaining_packages` is false for the current drone
NextDrone ==
    /\ pc = "planning"
    /\ drone_idx <= Len(plan_drones)
    /\ remaining_packages = <<>>
    /\ drone_idx' = drone_idx + 1
    /\ last_trip' = NoTrip
    /\ UNCHANGED <<cities, other_cities, path_cache, raised, query, pc, plan_packages,
                   plan_drones, remaining_packages, delivery_plans, history, calls>>

\* an exception leaves plan_delivery
PlanRaises(cache) ==
    /\ pc' = "idle"
    /\ raised' = "KeyError"
    /\ path_cache' = cache
    /\ delivery_plans' = <<>>
    /\ UNCHANGED <<cities, other_cities, query, plan_packages, plan_drones, remaining_packages,
                   drone_idx, history, calls>>

\* the current drone is given up: the for loop moves to the next one
GiveUpDrone(cache) ==
    /\ drone_idx' = drone_idx + 1
    /\ path_cache' = cache
    /\ UNCHANGED <<cities, other_cities, raised, query, pc, plan_packages, plan_drones,
                   remaining_packages, delivery_plans, history, calls>>

\* delivery_plans.append(plan) and the removal of the selected packages
EmitTrip(t) ==
    /\ delivery_plans' = delivery_plans \o t.plan
    /\ remaining_packages' = remove_all(remaining_packages, t.selected, 1)
    /\ path_cache' = t.cache
    /\ UNCHANGED <<cities, other_cities, raised, query, pc, plan_packages, plan_drones,
                   drone_idx, history, calls>>

\* one pass through the body of `while remaining_packages`
TripStep ==
    /\ pc = "planning"
    /\ drone_idx <= Len(plan_drones)
    /\ remaining_packages # <<>>
    /\ \E sel \in {select_packages(remaining_packages, plan_drones[drone_idx],
                                   cities, path_cache, Warehouse)} :
         IF sel.raised
         THEN PlanRaises(sel.cache) /\ last_trip' = [NoTrip EXCEPT !.outcome = "raised"]
         ELSE IF sel.selected = <<>>
         THEN GiveUpDrone(sel.cache) /\ last_trip' = [NoTrip EXCEPT !.outcome = "empty"]
         ELSE \E ord \in optimize_delivery_order(sel.selected, cities, sel.cache,
                                                 Warehouse) :
              \E t \in {trip(plan_drones[drone_idx], cities, Warehouse, sel, ord)} :
                /\ last_trip' = [outcome |-> t.outcome, selected |-> t.selected,
                                 ordered |-> t.ordered,
                                 leg_broke |-> t.leg_broke, plan |-> t.plan]
                /\ IF t.outcome = "raised" THEN PlanRaises(t.cache)
                   ELSE IF t.outcome = "aborted" THEN GiveUpDrone(t.cache)
                   ELSE EmitTrip(t)

\* return delivery_plans
PlanReturn ==
    /\ pc = "planning"
    /\ drone_idx > Len(plan_drones)
    /\ pc' = "idle"
    /\ last_trip' = NoTrip
    /\ history' = [history EXCEPT !.returned = TRUE]
    /\ UNCHANGED <<cities, other_cities, path_cache, raised, query, plan_packages, plan_drones,
                   remaining_packages, drone_idx, delivery_plans, calls>>

Next ==
    \/ SwitchPlanner
    \/ \E a \in CityArgs : AddCity(a[1], a[2])
    \/ \E a \in RouteArgs : AddRoute(a[1], a[2], a[3])
    \/ \E p \in TogglePairs : DeactivateRoute(p[1], p[2])
    \/ \E p \in TogglePairs : ActivateRoute(p[1], p[2])
    \/ \E q \in QueryPairs : Query(q[1], q[2])
    \/ \E a \in PlanArgs : PlanStart(a[1], a[2])
    \/ Statistics
    \/ NextDrone
    \/ TripStep
    \/ PlanReturn

Spec == Init /\ [][Next]_vars

\* one DeliveryPlanner for the whole behaviour
NextOnePlanner ==
    \/ \E a \in CityArgs : AddCity(a[1], a[2])
    \/ \E a \in RouteArgs : AddRoute(a[1], a[2], a[3])
    \/ \E p \in TogglePairs : DeactivateRoute(p[1], p[2])
    \/ \E p \in TogglePairs : ActivateRoute(p[1], p[2])
    \/ \E q \in QueryPairs : Query(q[1], q[2])
    \/ \E a \in PlanArgs : PlanStart(a[1], a[2])
    \/ Statistics
    \/ NextDrone
    \/ TripStep
    \/ PlanReturn

SpecOnePlanner == Init /\ [][NextOnePlanner]_vars

\* one DeliveryPlanner that plans for packages with priorities
NextPriority ==
    \/ \E a \in PriorityRouteArgs : AddRoute(a[1], a[2], a[3])
    \/ \E a \in PriorityPlanArgs : PlanStart(a[1], a[2])
    \/ NextDrone
    \/ TripStep
    \/ PlanReturn

SpecPriority == Init /\ [][NextPriority]_vars

\* one DeliveryPlanner whose network has shortest paths of equal length
NextTies ==
    \/ \E a \in TieRouteArgs : AddRoute(a[1], a[2], a[3])
    \/ \E q \in TieQueryPairs : Query(q[1], q[2])

SpecTies == Init /\ [][NextTies]_vars

\* one DeliveryPlanner whose routes are given new distances between plans
NextReroute ==
    \/ \E a \in RerouteArgs : AddRoute(a[1], a[2], a[3])
    \/ \E a \in PlanArgs : PlanStart(a[1], a[2])
    \/ NextDrone
    \/ TripStep
    \/ PlanReturn

SpecReroute == Init /\ [][NextReroute]_vars

\* a caller with two planners that asks for delivery orders itself
NextOrder ==
    \/ SwitchPlanner
    \/ \E a \in PriorityRouteArgs : AddRoute(a[1], a[2], a[3])
    \/ \E p \in TogglePairs : DeactivateRoute(p[1], p[2])
    \/ \E p \in TogglePairs : ActivateRoute(p[1], p[2])
    \/ \E a \in OrderArgs : Optimize(a)

SpecOrder == Init /\ [][NextOrder]_vars

\* one DeliveryPlanner whose links are given new distances and switched off
\* and on between plans
NextReactivate ==
    \/ \E a \in RerouteArgs : AddRoute(a[1], a[2], a[3])
    \/ \E p \in TogglePairs : DeactivateRoute(p[1], p[2])
    \/ \E p \in TogglePairs : ActivateRoute(p[1], p[2])
    \/ \E a \in PlanArgs : PlanStart(a[1], a[2])
    \/ NextDrone
    \/ TripStep
    \/ PlanReturn

SpecReactivate == Init /\ [][NextReactivate]_vars

\* one DeliveryPlanner that plans on a triangle of links
NextProxy ==
    \/ \E a \in ProxyRouteArgs : AddRoute(a[1], a[2], a[3])
    \/ \E a \in ProxyPlanArgs : PlanStart(a[1], a[2])
    \/ NextDrone
    \/ TripStep
    \/ PlanReturn

SpecProxy == Init /\ [][NextProxy]_vars

\* the condition of `while remaining_packages` holds for the current drone
InWhileBody ==
    /\ pc = "planning"
    /\ drone_idx <= Len(plan_drones)
    /\ remaining_packages # <<>>

\* the same planner, whose plan_delivery call goes on running once it is made:
\* the interpreter runs the loop body whenever the loop condition holds
SpecProxyRuns ==
    /\ Init
    /\ [][NextProxy]_vars
    /\ WF_vars(NextDrone)
    /\ ([]<>~InWhileBody \/ []<><<TripStep>>_vars)
    /\ WF_vars(PlanReturn)

\* the same caller with one planner
NextOrderOnePlanner ==
    \/ \E a \in PriorityRouteArgs : AddRoute(a[1], a[2], a[3])
    \/ \E p \in TogglePairs : DeactivateRoute(p[1], p[2])
    \/ \E p \in TogglePairs : ActivateRoute(p[1], p[2])
    \/ \E a \in OrderArgs : Optimize(a)

SpecOrderOnePlanner == Init /\ [][NextOrderOnePlanner]_vars

----------------------------------------------------------------------------
(* What the properties are stated with *)

\* the active links of a network, as (from, to, distance)
ActiveLinks(cs) ==
    {<<x[1], cs[x[1]].connections[x[2]].destination,
       cs[x[1]].connections[x[2]].distance>> :
        x \in {y \in (DOMAIN cs) \X (1..Cardinality(Names)) :
                /\ y[2] <= Len(cs[y[1]].connections)
                /\ cs[y[1]].connections[y[2]].is_active}}

Min(S) == CHOOSE x \in S : \A y \in S : x <= y

\* the least total distance of a walk of at most k active links from s to e,
\* Inf when there is none
RECURSIVE WalkDistance(_, _, _, _)
WalkDistance(cs, s, e, k) ==
    IF k = 0 THEN (IF s = e THEN 0 ELSE Inf)
    ELSE Min({WalkDistance(cs, s, e, k - 1)} \cup
             {WalkDistance(cs, s, l[1], k - 1) + l[3] :
                l \in {m \in ActiveLinks(cs) :
                          m[2] = e /\ WalkDistance(cs, s, m[1], k - 1) < Inf}})

\* the shortest distance over active links, Inf when a city is no location of
\* the network or no active path joins them
TrueDistance(cs, s, e) ==
    IF s \notin DOMAIN cs \/ e \notin DOMAIN cs THEN Inf
    ELSE WalkDistance(cs, s, e, Cardinality(DOMAIN cs) - 1)

Reachable(cs, s, e) == TrueDistance(cs, s, e) < Inf

RECURSIVE sum_weight(_, _)
sum_weight(packages, i) ==
    IF i > Len(packages) THEN 0 ELSE packages[i].weight + sum_weight(packages, i + 1)

\* the drone of plan_drones a trip is recorded for
DroneOf(plan) ==
    CHOOSE d \in {plan_drones[i] : i \in 1..Len(plan_drones)} : d.id = plan.drone_id

Trips == {delivery_plans[i] : i \in 1..Len(delivery_plans)}

PackageIds(packages) == {packages[i].id : i \in 1..Len(packages)}

\* the ids of the packages in the trips of a plan_delivery result
Delivered(plans) == UNION {PackageIds(plans[i].packages) : i \in 1..Len(plans)}

\* plan_delivery has returned and nothing was edited since
Returned == pc = "idle" /\ history.returned /\ history.edits = "none"

\* the Route from a to b
ConnectionTo(cs, a, b) ==
    cs[a].connections[CHOOSE i \in 1..Len(cs[a].connections) :
                            cs[a].connections[i].destination = b]

\* the network has a link from a to b
Linked(cs, a, b) == a \in DOMAIN cs /\ HasConnection(cs[a].connections, b)

RECURSIVE SumSeq(_)
SumSeq(numbers) ==
    IF numbers = <<>> THEN 0 ELSE Head(numbers) + SumSeq(Tail(numbers))

\* get_delivery_statistics was the last call
StatisticsTaken == history.call = <<"get_delivery_statistics">>

\* the fraction is total / trips
IsMean(fraction, total, trips) ==
    fraction.den > 0 /\ fraction.num * trips = total * fraction.den

\* the distance of the active link from a to b
LinkDistance(cs, a, b) ==
    (CHOOSE l \in ActiveLinks(cs) : l[1] = a /\ l[2] = b)[3]

\* consecutive cities of path are joined by active links
OverActiveLinks(cs, path) ==
    \A i \in 1..(Len(path) - 1) :
        \E l \in ActiveLinks(cs) : l[1] = path[i] /\ l[2] = path[i + 1]

\* the distances of the links of path, summed
RECURSIVE PathDistance(_, _, _)
PathDistance(cs, path, i) ==
    IF i >= Len(path) THEN 0
    ELSE LinkDistance(cs, path[i], path[i + 1]) + PathDistance(cs, path, i + 1)

----------------------------------------------------------------------------
(* Properties *)

\* C1: in every trip of plan_delivery, the weights of the trip's packages sum
\* to at most the max_weight of the drone the trip is recorded for
C1_WeightWithinCapacity ==
    \A plan \in Trips : sum_weight(plan.packages, 1) <= DroneOf(plan).max_weight

\* plan_delivery returned trips of two drones, one of which had to leave
\* packages it could not carry to the other
C1_Witness ==
    /\ Returned
    /\ Len(plan_drones) = 2
    /\ \E s, t \in Trips : s.drone_id = 1 /\ t.drone_id = 2
    /\ Len(delivery_plans) = 3

\* C2: in every trip of plan_delivery, the recorded total_distance is at most
\* the max_distance of the drone the trip is recorded for
C2_DistanceWithinRange ==
    \A plan \in Trips : plan.total_distance <= DroneOf(plan).max_distance

\* plan_delivery returned a trip whose distance is over half the range
C2_Witness ==
    /\ Returned
    /\ \E plan \in Trips : plan.total_distance = 90 /\ DroneOf(plan).max_distance = 100

\* C3: no package id is in two trips of one plan_delivery result, and while
\* plan_delivery runs no package of an emitted trip is left in the pool
C3_PackageInOneTrip ==
    /\ \A i, j \in 1..Len(delivery_plans) :
          i # j => PackageIds(delivery_plans[i].packages)
                     \cap PackageIds(delivery_plans[j].packages) = {}
    /\ \A i \in 1..Len(delivery_plans) :
          /\ Cardinality(PackageIds(delivery_plans[i].packages))
                = Len(delivery_plans[i].packages)
          /\ pc = "planning" =>
                PackageIds(delivery_plans[i].packages)
                    \cap PackageIds(remaining_packages) = {}

\* two trips were emitted and a package is still in the pool
C3_Witness ==
    /\ pc = "planning"
    /\ Len(delivery_plans) = 2
    /\ remaining_packages # <<>>

\* C4: when a delivery leg of the route is unreachable or over the range, the
\* trip is aborted: nothing is emitted for the selected packages
C4_LegFailureAborts ==
    last_trip.leg_broke => last_trip.outcome = "aborted"

\* C5: a dijkstra call for a pair that was cached when deactivate_route turned
\* a link off returns the shortest distance of the network as it is now, the
\* empty path and the unreachable distance when no active path is left
C5_NoStaleAfterDeactivation ==
    (query # NoQuery /\ <<query.start, query.end>> \in history.dropped) =>
        /\ query.distance = TrueDistance(cities, query.start, query.end)
        /\ ~Reachable(cities, query.start, query.end) =>
                query.path = <<>> /\ query.distance = Inf

\* Warehouse to CityB was cached, a deactivation cut it off, and the call
\* after it returned unreachable
C5_Witness ==
    /\ query.start = Warehouse /\ query.end = CityB
    /\ <<Warehouse, CityB>> \in history.dropped
    /\ query.path = <<>> /\ query.distance = Inf

\* C6: every dijkstra call returns the shortest distance of the network as it
\* is at the call
C6_QueriesCurrent ==
    query # NoQuery =>
        query.distance = TrueDistance(cities, query.start, query.end)

\* the previous plan_delivery call returned, then one deactivate_route call
\* turned off an active link, then plan_delivery was called with the same
\* arguments and returned
Replanned ==
    /\ Returned
    /\ history.before.returned
    /\ history.before.edits = "deactivate"
    /\ plan_packages = history.before.packages
    /\ plan_drones = history.before.drones

\* C7: after a replan, a package that had a trip before and whose destination
\* the deactivation cut off from the warehouse has no trip
C7_ReplanDropsCutOff ==
    Replanned =>
        \A i \in 1..Len(plan_packages) :
            (/\ plan_packages[i].id \in Delivered(history.before.plans)
             /\ ~Reachable(cities, Warehouse, plan_packages[i].destination)) =>
                /\ plan_packages[i].id \notin Delivered(delivery_plans)
                /\ Len(plan_packages) = 1 => delivery_plans = <<>>

\* the only package had a trip, its destination was cut off, the replan is empty
C7_Witness ==
    /\ Replanned
    /\ Len(plan_packages) = 1
    /\ plan_packages[1].id \in Delivered(history.before.plans)
    /\ ~Reachable(cities, Warehouse, plan_packages[1].destination)
    /\ delivery_plans = <<>>

\* the network Warehouse-CityA (10), CityA-CityB (15), CityB-CityC (20), all
\* links active
ChainNetwork ==
    /\ DOMAIN cities = Names
    /\ ActiveLinks(cities) =
            {<<Warehouse, CityA, 10>>, <<CityA, Warehouse, 10>>,
             <<CityA, CityB, 15>>, <<CityB, CityA, 15>>,
             <<CityB, CityC, 20>>, <<CityC, CityB, 20>>}
    /\ \A c \in Names : \A i \in 1..Len(cities[c].connections) :
            cities[c].connections[i].is_active

\* plan_delivery returned for packages 1, 2, 3 and the drone (20, 100) on the
\* chain network
ChainPlanned ==
    /\ Returned
    /\ ChainNetwork
    /\ plan_packages = <<P1, P2, P3>>
    /\ plan_drones = <<Drone(1, 20, 100)>>

ChainRoute == <<Warehouse, CityA, CityB, CityC, CityB, CityA, Warehouse>>

\* C8 as claimed: one trip with all three packages, distance 90, value 450
C8_OneTrip ==
    ChainPlanned =>
        /\ Len(delivery_plans) = 1
        /\ PackageIds(delivery_plans[1].packages) = {1, 2, 3}
        /\ delivery_plans[1].route = ChainRoute
        /\ delivery_plans[1].total_distance = 90
        /\ delivery_plans[1].total_value = 450

\* C8: called with an empty path cache, plan_delivery returns two trips: first
\* packages 2 and 1 over Warehouse, CityA, CityB, CityA, Warehouse (50, value
\* 250), then package 3 over the whole chain and back (90, value 200)
C8_TwoTrips ==
    (ChainPlanned /\ history.fresh) =>
        delivery_plans =
            <<[drone_id |-> 1, packages |-> <<P2, P1>>,
               route |-> <<Warehouse, CityA, CityB, CityA, Warehouse>>,
               total_distance |-> 50, total_value |-> 250],
              [drone_id |-> 1, packages |-> <<P3>>, route |-> ChainRoute,
               total_distance |-> 90, total_value |-> 200]>>

C8_Witness ==
    ChainPlanned /\ history.fresh /\ Len(delivery_plans) = 2

\* every package is heavier than every drone can carry
AllTooHeavy ==
    \A i \in 1..Len(plan_packages), j \in 1..Len(plan_drones) :
        plan_packages[i].weight > plan_drones[j].max_weight

\* C9: when every package is heavier than every drone can carry, plan_delivery
\* has no trip
C9_TooHeavyNoTrips ==
    AllTooHeavy => delivery_plans = <<>>

\* plan_delivery returned nothing for packages that are too heavy, one of which
\* is within the range of the drone
C9_Witness ==
    /\ Returned
    /\ AllTooHeavy
    /\ \E i \in 1..Len(plan_packages) :
          2 * TrueDistance(cities, Warehouse, plan_packages[i].destination)
                <= plan_drones[1].max_distance
    /\ delivery_plans = <<>>

\* C10: no call raises for infeasibility, and plan_delivery returns no trip for
\* packages whose destinations are not cities of the network
C10_InfeasibleIsEmpty ==
    /\ raised # "KeyError"
    /\ (/\ Returned
        /\ \A i \in 1..Len(plan_packages) :
              plan_packages[i].destination \notin DOMAIN cities)
          => delivery_plans = <<>>

\* C11: a dijkstra call returns the empty path and the unreachable distance
\* exactly when start or end is no city of the network or no path of active
\* links joins them, and a non-empty path and a finite distance otherwise
C11_UnreachableExactly ==
    query # NoQuery =>
        /\ (query.path = <<>> /\ query.distance = Inf)
                <=> ~Reachable(cities, query.start, query.end)
        /\ Reachable(cities, query.start, query.end)
                => (query.path # <<>> /\ query.distance < Inf)

\* C12: called with an empty cache for a pair joined by active links, dijkstra
\* returns a path from start to end over active links whose link distances sum
\* to the returned distance, and that distance is the least over all paths of
\* active links
C12_EarlyStopIsShortest ==
    (/\ query # NoQuery
     /\ query.cache_empty
     /\ Reachable(cities, query.start, query.end)) =>
        /\ query.path # <<>>
        /\ query.path[1] = query.start
        /\ query.path[Len(query.path)] = query.end
        /\ OverActiveLinks(cities, query.path)
        /\ PathDistance(cities, query.path, 1) = query.distance
        /\ query.distance = TrueDistance(cities, query.start, query.end)

\* Warehouse to CityB was asked with an empty cache where CityB is 25 away over
\* CityA and 30 away over CityC, and the answer went over CityA
C12_Witness ==
    /\ query.cache_empty
    /\ query.start = Warehouse /\ query.end = CityB
    /\ {<<Warehouse, CityA, 10>>, <<CityA, CityB, 15>>, <<Warehouse, CityC, 10>>,
        <<CityC, CityB, 20>>} \subseteq ActiveLinks(cities)
    /\ query.path = <<Warehouse, CityA, CityB>>
    /\ query.distance = 25

\* C13: a dijkstra call returns the path and the distance that the call
\* before it for the same pair on the same network returned, when the network
\* was not changed and no plan was made between the two
C13_SameAnswerTwice ==
    history.earlier # NoQuery =>
        /\ history.answer.path = history.earlier.path
        /\ history.answer.distance = history.earlier.distance

\* C14: for all cities a and b the link from a to b exists exactly when the
\* link from b to a does, and then the two have the same distance and the same
\* active flag
C14_GraphSymmetric ==
    \A a \in DOMAIN cities :
        \A i \in 1..Len(cities[a].connections) :
            /\ Linked(cities, cities[a].connections[i].destination, a)
            /\ ConnectionTo(cities, cities[a].connections[i].destination, a).distance
                    = cities[a].connections[i].distance
            /\ ConnectionTo(cities, cities[a].connections[i].destination, a).is_active
                    = cities[a].connections[i].is_active

\* add_route has just failed, on a network that has an active link and a link
\* that was turned off
C14_Witness ==
    /\ raised = "ValueError"
    /\ \E a, b \in DOMAIN cities :
          /\ Linked(cities, a, b) /\ ~ConnectionTo(cities, a, b).is_active
          /\ Linked(cities, b, a) /\ ~ConnectionTo(cities, b, a).is_active
    /\ \E a, b \in DOMAIN cities :
          /\ Linked(cities, a, b) /\ ConnectionTo(cities, a, b).is_active

\* the step is one more call of the caller, recorded as call
Called(call) == calls' = calls + 1 /\ history'.call = call

\* the network after a call is the network before it, but for the flag of the
\* links between a and b, which is flag in both directions
FlagSet(a, b, flag) ==
    /\ DOMAIN cities' = DOMAIN cities
    /\ \A c \in DOMAIN cities :
          /\ cities'[c].has_charging_station = cities[c].has_charging_station
          /\ Len(cities'[c].connections) = Len(cities[c].connections)
          /\ \A i \in 1..Len(cities[c].connections) :
                /\ cities'[c].connections[i].destination
                        = cities[c].connections[i].destination
                /\ cities'[c].connections[i].distance
                        = cities[c].connections[i].distance
                /\ cities'[c].connections[i].is_active
                        = IF <<c, cities[c].connections[i].destination>>
                                \in {<<a, b>>, <<b, a>>}
                          THEN flag
                          ELSE cities[c].connections[i].is_active

\* what a call that sets the flag of the link between a and b has to do
SetLinkActive(a, b, flag) ==
    /\ raised' = "none"
    /\ IF Linked(cities, a, b) /\ Linked(cities, b, a)
       THEN FlagSet(a, b, flag)
       ELSE cities' = cities

\* C15: activate_route and deactivate_route raise nothing; when a or b is no
\* city or there is no link between them they leave cities, links, distances
\* and flags as they are, otherwise they set the flag of both directions and
\* leave everything else of the network as it is
C15_ToggleFrame ==
    [][\A p \in TogglePairs :
          /\ (/\ Called(<<"deactivate_route", p[1], p[2]>>)
              /\ DeactivateRoute(p[1], p[2])) => SetLinkActive(p[1], p[2], FALSE)
          /\ (/\ Called(<<"activate_route", p[1], p[2]>>)
              /\ ActivateRoute(p[1], p[2])) => SetLinkActive(p[1], p[2], TRUE)]_vars

\* deactivate_route was called for CityA and CityB, both cities of a network
\* that has other links and no link between the two
C15_Witness ==
    /\ history.call = <<"deactivate_route", CityA, CityB>>
    /\ {CityA, CityB} \subseteq DOMAIN cities
    /\ ~Linked(cities, CityA, CityB)
    /\ Linked(cities, Warehouse, CityA)

\* the links of the network after a call are those before it
NoLinkCreated ==
    \A c \in DOMAIN cities' :
        cities'[c].connections = IF c \in DOMAIN cities THEN cities[c].connections
                                 ELSE <<>>

\* C16: add_route with a distance of 0 or less raises ValueError and creates no
\* link; with a positive distance it raises nothing and leaves both cities in
\* the network, linked in both directions with that distance
C16_AddRouteValidates ==
    [][\A a \in RouteArgs :
          (/\ Called(<<"add_route", a[1], a[2], a[3]>>)
           /\ AddRoute(a[1], a[2], a[3])) =>
            IF a[3] <= 0
            THEN raised' = "ValueError" /\ NoLinkCreated
            ELSE /\ raised' = "none"
                 /\ Linked(cities', a[1], a[2]) /\ Linked(cities', a[2], a[1])
                 /\ ConnectionTo(cities', a[1], a[2]).distance = a[3]
                 /\ ConnectionTo(cities', a[2], a[1]).distance = a[3]]_vars

\* add_route was called with distance 0 for two cities that were linked before
\* and has raised
C16_Witness ==
    /\ history.call = <<"add_route", Warehouse, CityC, 0>>
    /\ raised = "ValueError"
    /\ Linked(cities, Warehouse, CityC)
    /\ Linked(cities, Warehouse, CityA)

\* C17: a plan_delivery call that follows another one with the same packages
\* and drones, the network not edited in between, returns the trips the first
\* one returned
C17_SameInputsSameTrips ==
    (/\ Returned
     /\ history.before.returned
     /\ history.before.edits = "none"
     /\ plan_packages = history.before.packages
     /\ plan_drones = history.before.drones) =>
        delivery_plans = history.before.plans

\* the network has no link, so nothing but unreachable results were ever
\* computed on it and none of the cached entries is its own
Linkless(cs) == \A c \in DOMAIN cs : cs[c].connections = <<>>

\* C18: what a dijkstra call returns is what the network it is made on
\* determines, whatever was asked of another network before; on a network
\* without links that is the empty path and the unreachable distance
C18_OtherNetworkNotSeen ==
    (query # NoQuery /\ Linkless(cities)) =>
        /\ query.path = dijkstra_search(cities, query.start, query.end).path
        /\ query.distance = dijkstra_search(cities, query.start, query.end).distance
        /\ query.path = <<>> /\ query.distance = Inf

\* C19: get_delivery_statistics raises nothing; for no trips all six numbers
\* are 0; otherwise the three totals are the sums over the trips of the number
\* of packages, of total_value and of total_distance, and each average is its
\* total divided by the number of trips
C19_StatisticsAreMeans ==
    StatisticsTaken =>
        /\ ~history.stats.raised
        /\ raised = "none"
        /\ history.stats.total_packages
                = SumSeq([i \in 1..Len(delivery_plans) |->
                            Len(delivery_plans[i].packages)])
        /\ history.stats.total_value
                = SumSeq([i \in 1..Len(delivery_plans) |->
                            delivery_plans[i].total_value])
        /\ history.stats.total_distance
                = SumSeq([i \in 1..Len(delivery_plans) |->
                            delivery_plans[i].total_distance])
        /\ IF delivery_plans = <<>>
           THEN /\ history.stats.average_packages_per_trip.num = 0
                /\ history.stats.average_value_per_trip.num = 0
                /\ history.stats.average_distance_per_trip.num = 0
           ELSE /\ IsMean(history.stats.average_packages_per_trip,
                          history.stats.total_packages, Len(delivery_plans))
                /\ IsMean(history.stats.average_value_per_trip,
                          history.stats.total_value, Len(delivery_plans))
                /\ IsMean(history.stats.average_distance_per_trip,
                          history.stats.total_distance, Len(delivery_plans))

\* the statistics of two trips with three packages: 3 / 2 packages per trip
C19_Witness ==
    /\ StatisticsTaken
    /\ Len(delivery_plans) = 2
    /\ history.stats.total_packages = 3
    /\ history.stats.average_packages_per_trip = [num |-> 3, den |-> 2]
    /\ history.stats.average_distance_per_trip = [num |-> 70, den |-> 1]

\* C20: the route of every trip of a plan_delivery call begins and ends at
\* the warehouse, and every two consecutive cities of it are joined by a link
\* that is active in the network the call is made on
C20_RouteOverActiveLinks ==
    history.edits = "none" =>
        \A plan \in Trips :
            /\ plan.route[1] = Warehouse
            /\ plan.route[Len(plan.route)] = Warehouse
            /\ OverActiveLinks(cities, plan.route)

\* C21: the warehouse is a city of the network of every planner, from
\* construction on and after every call
C21_WarehouseExists ==
    Warehouse \in DOMAIN cities /\ Warehouse \in DOMAIN other_cities

\* a plan was made on a network of four cities, and the link from the
\* warehouse to CityA was turned off after it
C21_Witness ==
    /\ history.returned
    /\ DOMAIN cities = Names
    /\ Linked(cities, Warehouse, CityA)
    /\ ~ConnectionTo(cities, Warehouse, CityA).is_active

FeasibleAlone(cs, package, drone) ==
    /\ package.weight <= drone.max_weight
    /\ Reachable(cs, Warehouse, package.destination)
    /\ Reachable(cs, package.destination, Warehouse)
    /\ TrueDistance(cs, Warehouse, package.destination)
            + TrueDistance(cs, package.destination, Warehouse) <= drone.max_distance

\* C23: when a package of priority 1 can be carried by the first drone alone,
\* plan_delivery returns a first trip that has a package of priority 1
C23_PriorityOneFirst ==
    (/\ Returned
     /\ \E i \in 1..Len(plan_packages) :
           /\ plan_packages[i].priority = 1
           /\ FeasibleAlone(cities, plan_packages[i], plan_drones[1])) =>
        /\ delivery_plans # <<>>
        /\ \E j \in 1..Len(delivery_plans[1].packages) :
              delivery_plans[1].packages[j].priority = 1

\* the two package lists are the same but for the priorities
SameButPriority(packages, others) ==
    /\ Len(packages) = Len(others)
    /\ \A i \in 1..Len(packages) :
          [packages[i] EXCEPT !.priority = NoPriority]
                = [others[i] EXCEPT !.priority = NoPriority]

\* the same drone, package ids, route and totals, trip by trip
SameTrips(plans, others) ==
    /\ Len(plans) = Len(others)
    /\ \A i \in 1..Len(plans) :
          /\ plans[i].drone_id = others[i].drone_id
          /\ Len(plans[i].packages) = Len(others[i].packages)
          /\ \A j \in 1..Len(plans[i].packages) :
                plans[i].packages[j].id = others[i].packages[j].id
          /\ plans[i].route = others[i].route
          /\ plans[i].total_distance = others[i].total_distance
          /\ plans[i].total_value = others[i].total_value

\* plan_delivery returned, was called again on the same network with the same
\* drones and returned
PlannedTwice ==
    /\ Returned
    /\ history.before.returned
    /\ history.before.edits = "none"
    /\ plan_drones = history.before.drones

TightPredecessor(cs, s, u, v) ==
    /\ LinkActive(cs, u, v)
    /\ Reachable(cs, s, u)
    /\ TrueDistance(cs, s, u) + LinkDistance(cs, u, v) = TrueDistance(cs, s, v)

\* the place of the connection to destination in the dict
PositionOf(connections, destination) ==
    CHOOSE i \in 1..Len(connections) : connections[i].destination = destination

\* dijkstra searched the network as it is and found a path
Searched ==
    query.start # NoCity /\ query.cache_empty /\ query.path # <<>>

\* the path found goes over one city, and so does another path as short
TieOver(x, y) ==
    /\ Searched
    /\ query.path = <<query.start, x, query.end>>
    /\ y # x
    /\ TightPredecessor(cities, query.start, y, query.end)
    /\ LinkActive(cities, query.start, y)

\* C25 as stated: among shortest paths of equal length, dijkstra returns the
\* one whose city was enqueued first, whatever the ids: when two neighbours of
\* start both lead to end at the shortest distance, the path returned goes
\* over the one that comes first among the connections of start.
C25_TiesByEnqueueOrder ==
    \A x, y \in Names :
        TieOver(x, y) =>
            PositionOf(cities[query.start].connections, x)
                < PositionOf(cities[query.start].connections, y)

\* C25 amended: among shortest paths of equal length, dijkstra returns the one
\* determined by the (distance, id) order of the heap, not by enqueue order:
\* every city of the path is preceded by the one that, among the last stops of
\* its shortest paths, is nearest to start, and among those equally near has
\* the least id.
C25_TiesByDistanceThenId ==
    Searched =>
        \A i \in 1..(Len(query.path) - 1) : \A u \in DOMAIN cities :
            TightPredecessor(cities, query.start, u, query.path[i + 1]) =>
                LET d == TrueDistance(cities, query.start, query.path[i])
                    du == TrueDistance(cities, query.start, u)
                IN  \/ d < du
                    \/ d = du /\ NameRank[query.path[i]] <= NameRank[u]

\* the path over CityA is returned though CityC, as near, was enqueued first
C25_Witness ==
    /\ TieOver(CityA, CityC)
    /\ query.start = Warehouse
    /\ LinkDistance(cities, Warehouse, CityA) = LinkDistance(cities, Warehouse, CityC)
    /\ PositionOf(cities[Warehouse].connections, CityC)
          < PositionOf(cities[Warehouse].connections, CityA)

\* the drone of the last select_packages call of the plan_delivery call that
\* is under way: the for loop has moved on after a trip that was given up
SelectDrone ==
    IF last_trip.outcome \in {"aborted", "empty"} THEN plan_drones[drone_idx - 1]
    ELSE plan_drones[drone_idx]

\* plan_delivery is under way and its last select_packages call returned
\* packages
Selected == pc = "planning" /\ last_trip.selected # <<>>

\* the shortest distance from the warehouse to the destination and back
RoundTrip(cs, package) ==
    IF Reachable(cs, Warehouse, package.destination)
        /\ Reachable(cs, package.destination, Warehouse)
    THEN TrueDistance(cs, Warehouse, package.destination)
            + TrueDistance(cs, package.destination, Warehouse)
    ELSE Inf

\* C26: select_packages never returns a package whose destination cannot be
\* reached from the warehouse, that cannot be brought back from, or whose own
\* way out and back is longer than the drone's max_distance; no trip of the
\* drone holds such a package.
C26_SelectedCanRoundTrip ==
    /\ Selected =>
          \A i \in 1..Len(last_trip.selected) :
              RoundTrip(cities, last_trip.selected[i]) <= SelectDrone.max_distance
    /\ pc = "planning" =>
          \A t \in Trips : \A i \in 1..Len(t.packages) :
              RoundTrip(cities, t.packages[i]) <= DroneOf(t).max_distance

Elements(list) == {list[i] : i \in 1..Len(list)}

\* plan_delivery is under way and select_packages has returned for the drone
\* SelectDrone
Considered == pc = "planning" /\ last_trip.outcome \in {"empty", "aborted", "emitted"}

\* the packages the last select_packages call was given: what is left and
\* what the call took, in the order of the packages of plan_delivery
SelectCandidates ==
    SelectSeq(plan_packages,
              LAMBDA p : p \in Elements(remaining_packages)
                                \cup Elements(last_trip.selected))

\* the candidates of a select_packages call that outlive the first loop
Survivors(cs, candidates, drone) ==
    {p \in Elements(candidates) :
        package_is_valid(p) /\ RoundTrip(cs, p) <= drone.max_distance}

\* score(a) > score(b), with score = (value / weight) / (RoundTrip + 1)
TrueScoreGreater(cs, a, b) ==
    a.value * (b.weight * (RoundTrip(cs, b) + 1))
        > b.value * (a.weight * (RoundTrip(cs, a) + 1))

PlaceIn(list, x) == CHOOSE i \in 1..Len(list) : list[i] = x

\* a comes before b in descending score order, candidates of equal score in
\* the order of the candidate list
ConsideredBefore(cs, candidates, a, b) ==
    \/ TrueScoreGreater(cs, a, b)
    \/ /\ ~TrueScoreGreater(cs, b, a)
       /\ PlaceIn(candidates, a) < PlaceIn(candidates, b)

RECURSIVE WeightOf(_)
WeightOf(S) ==
    IF S = {} THEN 0
    ELSE LET p == CHOOSE q \in S : TRUE IN p.weight + WeightOf(S \ {p})

RECURSIVE RoundTripsOf(_, _)
RoundTripsOf(cs, S) ==
    IF S = {} THEN 0
    ELSE LET p == CHOOSE q \in S : TRUE
         IN  RoundTrip(cs, p) + RoundTripsOf(cs, S \ {p})

\* the candidate fits the drone after the accepted candidates before it
FitsAfter(cs, candidate, before, drone) ==
    /\ candidate.weight <= drone.max_weight - WeightOf(before)
    /\ RoundTripsOf(cs, before) + RoundTrip(cs, candidate) <= drone.max_distance

\* C27: select_packages accepts greedily: a surviving candidate is accepted
\* exactly when its weight is at most the capacity the accepted candidates
\* before it leave and their round trips plus its own do not exceed
\* max_distance, whatever was rejected before it; so the packages returned
\* weigh at most max_weight and their round trips sum to at most max_distance.
C27_GreedyAcceptance ==
    Considered =>
        /\ \A c \in Survivors(cities, SelectCandidates, SelectDrone) :
              c \in Elements(last_trip.selected)
                <=> FitsAfter(cities, c,
                              {a \in Elements(last_trip.selected) \ {c} :
                                  ConsideredBefore(cities, SelectCandidates, a, c)},
                              SelectDrone)
        /\ WeightOf(Elements(last_trip.selected)) <= SelectDrone.max_weight
        /\ RoundTripsOf(cities, Elements(last_trip.selected))
              <= SelectDrone.max_distance

\* C28: select_packages considers the candidates in descending order of
\* score = value_weight_ratio / (round trip + 1), candidates of equal score in
\* the order of the candidate list, and returns the accepted ones in that
\* order.
C28_DescendingScoreOrder ==
    Considered =>
        \A i, j \in 1..Len(last_trip.selected) :
            i < j => ConsideredBefore(cities, SelectCandidates,
                                      last_trip.selected[i], last_trip.selected[j])

\* C29: select_packages is a function of its candidates, drone, network and
\* start city: it leaves the candidates, the drones and the network as they
\* are, and it returns what a call with the same arguments returns when no
\* path was queried before.
C29_SelectIsPure ==
    [][TripStep =>
        /\ cities' = cities
        /\ plan_packages' = plan_packages
        /\ plan_drones' = plan_drones
        /\ last_trip'.selected
              = select_packages(remaining_packages, plan_drones[drone_idx], cities,
                                EmptyCache, Warehouse).selected]_vars

\* the destinations of the packages, each once, in the order the list
\* reaches them
RECURSIVE Stops(_, _, _)
Stops(packages, i, seen) ==
    IF i > Len(packages) THEN <<>>
    ELSE IF packages[i].destination \in seen THEN Stops(packages, i + 1, seen)
    ELSE <<packages[i].destination>>
            \o Stops(packages, i + 1, seen \cup {packages[i].destination})

Destinations(packages) == {packages[i].destination : i \in 1..Len(packages)}

\* the k-th stop is a nearest one among the destinations not visited before it
NearestPick(cs, start_city, destinations, stops, k) ==
    LET current_city == IF k = 1 THEN start_city ELSE stops[k - 1]
        remaining == destinations \ {stops[j] : j \in 1..(k - 1)}
    IN  /\ Reachable(cs, current_city, stops[k])
        /\ \A d \in remaining :
              TrueDistance(cs, current_city, stops[k])
                <= TrueDistance(cs, current_city, d)

\* the packages of one destination follow each other, in the order of packages
GroupedInOrder(packages, ordered) ==
    /\ Elements(ordered) \subseteq Elements(packages)
    /\ \A i, j \in 1..Len(ordered) :
          (i < j /\ ordered[i].destination = ordered[j].destination) =>
              /\ PlaceIn(packages, ordered[i]) < PlaceIn(packages, ordered[j])
              /\ \A k \in i..j : ordered[k].destination = ordered[i].destination
    /\ \A q \in Elements(packages) :
          q.destination \in Destinations(ordered) => q \in Elements(ordered)

\* C30: optimize_delivery_order is nearest-neighbour: from the warehouse on,
\* every destination it picks is at the least shortest-path distance from the
\* current city among the destinations not yet visited; the packages of a
\* picked destination come together, in input order; and when every
\* destination can be reached the result is a permutation of the packages.
C30_NearestNeighbour ==
    Selected =>
        /\ \A k \in 1..Len(Stops(last_trip.ordered, 1, {})) :
              NearestPick(cities, Warehouse, Destinations(last_trip.selected),
                          Stops(last_trip.ordered, 1, {}), k)
        /\ GroupedInOrder(last_trip.selected, last_trip.ordered)
        /\ (\A d \in Destinations(last_trip.selected) :
                Reachable(cities, Warehouse, d))
              => /\ Len(last_trip.ordered) = Len(last_trip.selected)
                 /\ Elements(last_trip.ordered) = Elements(last_trip.selected)

\* optimize_delivery_order was the last call, made with packages
Ordered(packages) == history.call = <<"optimize_delivery_order", packages>>

\* the city the loop of optimize_delivery_order was at when it ended
LastStop(ordered) ==
    IF ordered = <<>> THEN Warehouse ELSE ordered[Len(ordered)].destination

\* C31: optimize_delivery_order stops without an error when no remaining
\* destination can be reached from the current city, and only then: it
\* returns the packages of the destinations ordered so far, each of them
\* reached from the one before, and none of the destinations left out can be
\* reached from the last one.
C31_DefensiveStop ==
    \A a \in OrderArgs :
        Ordered(a) =>
            /\ ~history.order.raised
            /\ GroupedInOrder(a, history.order.ordered)
            /\ \A k \in 1..Len(Stops(history.order.ordered, 1, {})) :
                  Reachable(cities,
                            IF k = 1 THEN Warehouse
                            ELSE Stops(history.order.ordered, 1, {})[k - 1],
                            Stops(history.order.ordered, 1, {})[k])
            /\ \A d \in Destinations(a) \ Destinations(history.order.ordered) :
                  ~Reachable(cities, LastStop(history.order.ordered), d)

RECURSIVE ValueOf(_)
ValueOf(S) ==
    IF S = {} THEN 0
    ELSE LET p == CHOOSE q \in S : TRUE IN p.value + ValueOf(S \ {p})

\* C32: in every trip plan_delivery returns, total_value is the sum of the
\* values of the trip's packages, and total_distance is the sum of the
\* distances of the links between consecutive cities of the route, in the
\* network as it is.
C32_TripTotals ==
    Returned =>
        \A t \in Trips :
            /\ t.total_value = ValueOf(Elements(t.packages))
            /\ OverActiveLinks(cities, t.route)
            /\ t.total_distance = PathDistance(cities, t.route, 1)

\* two dijkstra results are the same path and distance
SameAnswer(r, other) ==
    r.raised = other.raised /\ r.path = other.path /\ r.distance = other.distance

\* C33: deactivate_route(a, b) on an active link followed by
\* activate_route(a, b) leaves the network as it was before the
\* deactivation, links, distances and active flags, and every shortest path
\* asked for after the pair is the one that was returned before it.
C33_ReactivationRestores ==
    [][\A p \in TogglePairs :
        (/\ Called(<<"activate_route", p[1], p[2]>>)
         /\ history.call = <<"deactivate_route", p[1], p[2]>>
         /\ history.undone.set
         /\ ActivateRoute(p[1], p[2]))
        => /\ cities' = history.undone.cities
           /\ \A s, e \in Names :
                 SameAnswer(dijkstra(history.undone.cities, history.undone.cache,
                                     s, e),
                            dijkstra(cities', path_cache', s, e))]_vars

\* the cities of stops occur in route in the order of stops
VisitsInOrder(route, stops) ==
    \E at \in [1..Len(stops) -> 1..Len(route)] :
        /\ \A k \in 1..Len(stops) : route[at[k]] = stops[k]
        /\ \A k \in 1..(Len(stops) - 1) : at[k] < at[k + 1]

\* C34: every trip plan_delivery emits visits the destination of each of
\* its packages: the destination is a city of the trip's route, and the
\* destinations come in the route in the order optimize_delivery_order gave.
C34_TripVisitsDestinations ==
    /\ \A t \in Trips : \A i \in 1..Len(t.packages) :
          t.packages[i].destination \in Elements(t.route)
    /\ last_trip.outcome = "emitted" =>
          /\ Destinations(last_trip.ordered) = Destinations(last_trip.selected)
          /\ VisitsInOrder(last_trip.plan[1].route, Stops(last_trip.ordered, 1, {}))

\* every entry of the cache is a shortest path of the network
CacheConsistent(cs, cache) ==
    \A k \in DOMAIN cache :
        /\ cache[k].distance = TrueDistance(cs, k[1], k[2])
        /\ OverActiveLinks(cs, cache[k].path)
        /\ PathDistance(cs, cache[k].path, 1) = cache[k].distance

\* the shortest distances from start_city over the stops and back, summed
RECURSIVE TourDistance(_, _, _, _)
TourDistance(cs, start_city, current_city, stops) ==
    IF stops = <<>> THEN TrueDistance(cs, current_city, start_city)
    ELSE TrueDistance(cs, current_city, Head(stops))
            + TourDistance(cs, start_city, Head(stops), Tail(stops))

RECURSIVE RoundTripSum(_, _)
RoundTripSum(cs, packages) ==
    IF packages = <<>> THEN 0
    ELSE RoundTrip(cs, Head(packages)) + RoundTripSum(cs, Tail(packages))

\* the body of the while loop of plan_delivery has selected packages, and
\* nothing was called since
TripTried == history.call = <<"plan_delivery">> /\ last_trip.selected # <<>>

\* C35: with a cache that agrees with the network, the distance of the
\* route plan_delivery builds for the packages select_packages returned,
\* from the warehouse over the destinations in the order of
\* optimize_delivery_order and back, is at most the sum of the packages' own
\* round trips, so no leg of the route is unreachable or over the range: the
\* trip is emitted.
C35_ProxyIsConservative ==
    (TripTried /\ CacheConsistent(cities, path_cache)) =>
        /\ TourDistance(cities, Warehouse, Warehouse, Stops(last_trip.ordered, 1, {}))
              <= RoundTripSum(cities, last_trip.selected)
        /\ RoundTripSum(cities, last_trip.selected) <= SelectDrone.max_distance
        /\ Destinations(last_trip.ordered) = Destinations(last_trip.selected)
        /\ ~last_trip.leg_broke
        /\ last_trip.outcome = "emitted"
        /\ last_trip.plan[1].total_distance
              = TourDistance(cities, Warehouse, Warehouse,
                             Stops(last_trip.ordered, 1, {}))

\* a trip over CityA and CityB that is shorter than the two round trips
C35_Witness ==
    /\ TripTried
    /\ CacheConsistent(cities, path_cache)
    /\ last_trip.outcome = "emitted"
    /\ Destinations(last_trip.selected) = {CityA, CityB}
    /\ last_trip.plan[1].total_distance < RoundTripSum(cities, last_trip.selected)

\* C36: plan_delivery terminates: every pass through the body of a drone's
\* while loop either ends that loop (the for loop moves to the next drone, or
\* an exception leaves the call) or removes a package from
\* remaining_packages; there are never more trips than packages; and a call
\* that has begun returns or raises.
C36_PlanTerminates ==
    /\ [][TripStep =>
            \/ drone_idx' = drone_idx + 1
            \/ pc' = "idle"
            \/ Len(remaining_packages') < Len(remaining_packages)]_vars
    /\ [](Len(delivery_plans) <= Len(plan_packages))
    /\ (pc = "planning") ~> (pc = "idle")

\* the second drone is in its second pass, after two trips of the first one
C36_Witness ==
    /\ pc = "planning"
    /\ drone_idx = 2
    /\ Len(delivery_plans) = 2
    /\ remaining_packages # <<>>

\* the drone can carry the package and fly to its destination and back
IndividuallyFeasible(cs, package, drone) ==
    /\ package.weight <= drone.max_weight
    /\ RoundTrip(cs, package) # Inf
    /\ RoundTrip(cs, package) <= drone.max_distance

\* C37: when plan_delivery returns, every package that some drone can carry
\* and fly out and back with on its own is in a trip; and a drone stops
\* building trips (empty selection or aborted route) only when none of the
\* packages left is feasible for it on its own.
C37_FeasibleAssigned ==
    /\ Returned =>
          \A i \in 1..Len(plan_packages) :
              (\E d \in 1..Len(plan_drones) :
                  IndividuallyFeasible(cities, plan_packages[i], plan_drones[d]))
                  => \E t \in Trips : plan_packages[i] \in Elements(t.packages)
    /\ (pc = "planning" /\ last_trip.outcome \in {"empty", "aborted"}) =>
          \A i \in 1..Len(remaining_packages) :
              ~IndividuallyFeasible(cities, remaining_packages[i], SelectDrone)

\* C38: an add_route call that raises ValueError because the distance is 0 or
\* less leaves the network as it was: the same cities, the same connections
\* and the same is_active flags, also when city1 or city2 was not a city
\* before the call.
C38_FailedAddRouteChangesNothing ==
    [][\A a \in RouteArgs :
          (/\ Called(<<"add_route", a[1], a[2], a[3]>>)
           /\ AddRoute(a[1], a[2], a[3])
           /\ a[3] <= 0) =>
             raised' = "ValueError" /\ cities' = cities]_vars

====
